---- MODULE Spec2Model ----
(***************************************************************************)
(* Model of delta_code_review_tool.py: main() reads two text files, aligns *)
(* them with difflib.ndiff (compare_files), renders the aligned sequences  *)
(* into a four-column sheet with highlight fills (create_excel), saves the *)
(* workbook and prints a success message.                                  *)
(*                                                                         *)
(* Strings are sequences of one-character strings, so that formatting      *)
(* (f"{n} {text}"), rstrip, slicing and split(' ', 1) are computed and not *)
(* assumed.  Indices written i, j, alo, ahi, ... are Python's 0-based      *)
(* half-open indices; element i of a Python list x is x[i + 1] here.       *)
(***************************************************************************)
EXTENDS Integers, Sequences, FiniteSets, TLC

\* Largest number of lines in an input file.
MaxLines == 3

\* The lines the input files are built from: a blank line, a line with
\* leading whitespace, and the same line with trailing whitespace (the last
\* two are similar enough for ndiff's intraline '?' hints).
Vocabulary ==
    { <<>>,
      <<" ", "a", "b">>,
      <<" ", "a", "b", " ">> }

RECURSIVE SeqsUpTo(_, _)
SeqsUpTo(S, n) ==
    IF n = 0 THEN { <<>> }
    ELSE LET shorter == SeqsUpTo(S, n - 1)
         IN  shorter \cup { Append(s, x) : s \in shorter, x \in S }

\* Every file content the model considers, as the list read_file returns.
Files == SeqsUpTo(Vocabulary, MaxLines)

----------------------------------------------------------------------------
(* Python string primitives used by the program and by difflib.            *)

Max(x, y) == IF x >= y THEN x ELSE y

\* str.isspace() for one character (the characters the model uses).
IsSpace(c) == c \in {" ", "\t", "\n"}

\* str.rstrip(): drop trailing whitespace.
RECURSIVE rstrip(_)
rstrip(s) ==
    IF s = <<>> THEN s
    ELSE IF IsSpace(s[Len(s)]) THEN rstrip(SubSeq(s, 1, Len(s) - 1))
    ELSE s

DigitChar(d) ==
    CASE d = 0 -> "0" [] d = 1 -> "1" [] d = 2 -> "2" [] d = 3 -> "3"
      [] d = 4 -> "4" [] d = 5 -> "5" [] d = 6 -> "6" [] d = 7 -> "7"
      [] d = 8 -> "8" [] d = 9 -> "9"

\* str(n) for n >= 0: decimal digits, most significant first.
RECURSIVE Str(_)
Str(n) ==
    IF n < 10 THEN << DigitChar(n) >>
    ELSE Str(n \div 10) \o << DigitChar(n % 10) >>

\* s[k:] for a Python slice start k.
SliceFrom(s, k) == SubSeq(s, k + 1, Len(s))

\* 0-based index of the first occurrence of c in s from position k, or -1.
RECURSIVE Find(_, _, _)
Find(s, c, k) ==
    IF k >= Len(s) THEN -1
    ELSE IF s[k + 1] = c THEN k
    ELSE Find(s, c, k + 1)

\* s.split(' ', 1): at most one split, at the first space.
Split1(s) ==
    LET p == Find(s, " ", 0)
    IN  IF p = -1 THEN << s >>
        ELSE << SubSeq(s, 1, p), SliceFrom(s, p + 1) >>

----------------------------------------------------------------------------
(* difflib.SequenceMatcher, as used by difflib.ndiff.  A matcher is the    *)
(* record [a, b, junk]: the two sequences and the set of junk elements of  *)
(* b.  The autojunk heuristic only applies when len(b) >= 200 and is not   *)
(* modelled.  A match is the triple <<i, j, k>> : a[i:i+k] = b[j:j+k].     *)

SequenceMatcher(junk, a, b) == [a |-> a, b |-> b, junk |-> junk]

\* The value k = newj2len[j] of find_longest_match: the length of the run of
\* equal, non-junk elements that ends at a[i], b[j] and stays in the window.
RECURSIVE RunLen(_, _, _, _, _)
RunLen(sm, alo, blo, i, j) ==
    IF i < alo \/ j < blo THEN 0
    ELSE IF sm.a[i + 1] # sm.b[j + 1] \/ sm.b[j + 1] \in sm.junk THEN 0
    ELSE 1 + RunLen(sm, alo, blo, i - 1, j - 1)

\* The double loop of find_longest_match (i ascending, then j ascending),
\* keeping the first run that is strictly longer than the best so far.
RECURSIVE ScanMatch(_, _, _, _, _, _, _)
ScanMatch(sm, alo, ahi, blo, bhi, p, best) ==
    LET nb == bhi - blo
    IN  IF nb <= 0 \/ p >= (ahi - alo) * nb THEN best
        ELSE LET i == alo + (p \div nb)
                 j == blo + (p % nb)
                 k == RunLen(sm, alo, blo, i, j)
             IN  ScanMatch(sm, alo, ahi, blo, bhi, p + 1,
                           IF k > best[3] THEN << i - k + 1, j - k + 1, k >>
                           ELSE best)

\* The extension loops of find_longest_match: wantJunk = FALSE extends over
\* equal non-junk elements, wantJunk = TRUE over equal junk elements.
RECURSIVE ExtendBack(_, _, _, _, _)
ExtendBack(sm, alo, blo, m, wantJunk) ==
    IF /\ m[1] > alo
       /\ m[2] > blo
       /\ (sm.b[m[2]] \in sm.junk) = wantJunk
       /\ sm.a[m[1]] = sm.b[m[2]]
    THEN ExtendBack(sm, alo, blo, << m[1] - 1, m[2] - 1, m[3] + 1 >>, wantJunk)
    ELSE m

RECURSIVE ExtendFwd(_, _, _, _, _)
ExtendFwd(sm, ahi, bhi, m, wantJunk) ==
    IF /\ m[1] + m[3] < ahi
       /\ m[2] + m[3] < bhi
       /\ (sm.b[m[2] + m[3] + 1] \in sm.junk) = wantJunk
       /\ sm.a[m[1] + m[3] + 1] = sm.b[m[2] + m[3] + 1]
    THEN ExtendFwd(sm, ahi, bhi, << m[1], m[2], m[3] + 1 >>, wantJunk)
    ELSE m

find_longest_match(sm, alo, ahi, blo, bhi) ==
    LET m0 == ScanMatch(sm, alo, ahi, blo, bhi, 0, << alo, blo, 0 >>)
        m1 == ExtendBack(sm, alo, blo, m0, FALSE)
        m2 == ExtendFwd(sm, ahi, bhi, m1, FALSE)
        m3 == ExtendBack(sm, alo, blo, m2, TRUE)
    IN  ExtendFwd(sm, ahi, bhi, m3, TRUE)

\* The work queue of get_matching_blocks followed by its sort: the blocks
\* left of the longest match, the match, the blocks right of it.
RECURSIVE Blocks(_, _, _, _, _)
Blocks(sm, alo, ahi, blo, bhi) ==
    LET x == find_longest_match(sm, alo, ahi, blo, bhi)
        i == x[1]
        j == x[2]
        k == x[3]
    IN  IF k = 0 THEN << >>
        ELSE (IF alo < i /\ blo < j THEN Blocks(sm, alo, i, blo, j) ELSE << >>)
             \o << x >>
             \o (IF i + k < ahi /\ j + k < bhi
                 THEN Blocks(sm, i + k, ahi, j + k, bhi) ELSE << >>)

\* The loop of get_matching_blocks that collapses adjacent blocks.
RECURSIVE NonAdjacent(_, _, _)
NonAdjacent(blocks, n, cur) ==
    LET flush == IF cur[3] # 0 THEN << cur >> ELSE << >>
    IN  IF n > Len(blocks) THEN flush
        ELSE LET nx == blocks[n]
             IN  IF cur[1] + cur[3] = nx[1] /\ cur[2] + cur[3] = nx[2]
                 THEN NonAdjacent(blocks, n + 1,
                                  << cur[1], cur[2], cur[3] + nx[3] >>)
                 ELSE flush \o NonAdjacent(blocks, n + 1, nx)

get_matching_blocks(sm) ==
    NonAdjacent(Blocks(sm, 0, Len(sm.a), 0, Len(sm.b)), 1, << 0, 0, 0 >>)
        \o << << Len(sm.a), Len(sm.b), 0 >> >>

\* The loop of get_opcodes over the matching blocks, from position (i, j).
RECURSIVE OpcodesFrom(_, _, _, _)
OpcodesFrom(blocks, n, i, j) ==
    IF n > Len(blocks) THEN << >>
    ELSE LET ai   == blocks[n][1]
             bj   == blocks[n][2]
             size == blocks[n][3]
             tag  == IF i < ai /\ j < bj THEN "replace"
                     ELSE IF i < ai THEN "delete"
                     ELSE IF j < bj THEN "insert"
                     ELSE ""
         IN  (IF tag # "" THEN << << tag, i, ai, j, bj >> >> ELSE << >>)
             \o (IF size # 0
                 THEN << << "equal", ai, ai + size, bj, bj + size >> >>
                 ELSE << >>)
             \o OpcodesFrom(blocks, n + 1, ai + size, bj + size)

get_opcodes(sm) == OpcodesFrom(get_matching_blocks(sm), 1, 0, 0)

RECURSIVE SumSizes(_, _)
SumSizes(blocks, n) ==
    IF n > Len(blocks) THEN 0 ELSE blocks[n][3] + SumSizes(blocks, n + 1)

\* ratio() = 2.0 * matches / length as the fraction <<numerator, denominator>>
\* (1.0 when both sequences are empty).
ratio(sm) ==
    LET matches == SumSizes(get_matching_blocks(sm), 1)
        length  == Len(sm.a) + Len(sm.b)
    IN  IF length # 0 THEN << 2 * matches, length >> ELSE << 1, 1 >>

\* x > y for fractions with positive denominators.
RatioGreater(x, y) == x[1] * y[2] > y[1] * x[2]

----------------------------------------------------------------------------
(* difflib.Differ, the generator behind difflib.ndiff(a, b) with           *)
(* linejunk = None and charjunk = IS_CHARACTER_JUNK.  Its output is a      *)
(* sequence of strings, each a two-character code ("  ", "- ", "+ ", "? ") *)
(* followed by text.                                                       *)

\* IS_CHARACTER_JUNK: blanks and tabs.
CharJunk == {" ", "\t"}

Rep(c, n) == [x \in 1..n |-> c]

\* Differ._dump: one output line per element of x[lo:hi].
_dump(tag, x, lo, hi) == [n \in 1..(hi - lo) |-> << tag, " " >> \o x[lo + n]]

\* Differ._plain_replace: the shorter block is dumped first.
_plain_replace(a, alo, ahi, b, blo, bhi) ==
    IF bhi - blo < ahi - alo
    THEN _dump("+", b, blo, bhi) \o _dump("-", a, alo, ahi)
    ELSE _dump("-", a, alo, ahi) \o _dump("+", b, blo, bhi)

\* The nested loop of _fancy_replace (j outer, i inner) looking for the most
\* similar pair of lines; st = [p, best, i, j, eqi, eqj]: the iteration,
\* best_ratio, best_i, best_j, eqi, eqj (-1 standing for None).
RECURSIVE FancyScan(_, _, _, _, _, _, _)
FancyScan(a, alo, ahi, b, blo, bhi, st) ==
    LET na == ahi - alo
        p  == st.p
    IN  IF p >= na * (bhi - blo) THEN st
        ELSE LET j  == blo + (p \div na)
                 i  == alo + (p % na)
                 ai == a[i + 1]
                 bj == b[j + 1]
                 r  == ratio(SequenceMatcher(CharJunk, ai, bj))
                 nx == [st EXCEPT !.p = p + 1]
             IN  FancyScan(a, alo, ahi, b, blo, bhi,
                     IF ai = bj
                     THEN IF st.eqi = -1
                          THEN [nx EXCEPT !.eqi = i, !.eqj = j]
                          ELSE nx
                     ELSE IF RatioGreater(r, st.best)
                          THEN [nx EXCEPT !.best = r, !.i = i, !.j = j]
                          ELSE nx)

\* The intraline tag strings _fancy_replace builds from the character opcodes;
\* side 1 is atags, side 2 is btags.
RECURSIVE Tags(_, _, _)
Tags(ops, n, side) ==
    IF n > Len(ops) THEN << >>
    ELSE LET op  == ops[n]
             tag == op[1]
             la  == op[3] - op[2]
             lb  == op[5] - op[4]
             len == IF side = 1 THEN la ELSE lb
             t   == IF tag = "replace" THEN Rep("^", len)
                    ELSE IF tag = "delete"
                         THEN (IF side = 1 THEN Rep("-", la) ELSE << >>)
                    ELSE IF tag = "insert"
                         THEN (IF side = 2 THEN Rep("+", lb) ELSE << >>)
                    ELSE Rep(" ", len)
         IN  t \o Tags(ops, n + 1, side)

_keep_original_ws(s, tag_s) ==
    LET n == IF Len(s) < Len(tag_s) THEN Len(s) ELSE Len(tag_s)
    IN  [x \in 1..n |-> IF tag_s[x] = " " /\ IsSpace(s[x]) THEN s[x]
                        ELSE tag_s[x]]

\* Differ._qformat: the pair of similar lines with their '?' hint lines.
_qformat(aline, bline, atags0, btags0) ==
    LET atags == rstrip(_keep_original_ws(aline, atags0))
        btags == rstrip(_keep_original_ws(bline, btags0))
    IN  << << "-", " " >> \o aline >>
        \o (IF atags # << >> THEN << << "?", " " >> \o atags \o << "\n" >> >>
            ELSE << >>)
        \o << << "+", " " >> \o bline >>
        \o (IF btags # << >> THEN << << "?", " " >> \o btags \o << "\n" >> >>
            ELSE << >>)

\* The initial state of the search of _fancy_replace: best_ratio = 0.74.
FancyStart ==
    [p |-> 0, best |-> << 74, 100 >>, i |-> -1, j |-> -1, eqi |-> -1,
     eqj |-> -1]

\* best_ratio < cutoff, with cutoff = 0.75.
BelowCutoff(st) == RatioGreater(<< 75, 100 >>, st.best)

\* The lines _fancy_replace emits for the synch pair: the intraline diff of
\* two similar lines, or the line itself when the pair is identical.
SynchPair(aelt, belt, ops, identical) ==
    IF identical THEN << << " ", " " >> \o aelt >>
    ELSE _qformat(aelt, belt, Tags(ops, 1, 1), Tags(ops, 1, 2))

RECURSIVE _fancy_replace(_, _, _, _, _, _)
RECURSIVE _fancy_helper(_, _, _, _, _, _)
RECURSIVE FancySplit(_, _, _, _, _, _, _, _, _)

\* The tail of _fancy_replace once the synch pair (best_i, best_j) is known:
\* what precedes the pair, the pair, what follows it.
FancySplit(a, alo, ahi, b, blo, bhi, best_i, best_j, identical) ==
    _fancy_helper(a, alo, best_i, b, blo, best_j)
    \o SynchPair(a[best_i + 1], b[best_j + 1],
                 get_opcodes(SequenceMatcher(CharJunk, a[best_i + 1],
                                             b[best_j + 1])),
                 identical)
    \o _fancy_helper(a, best_i + 1, ahi, b, best_j + 1, bhi)

\* The decision of _fancy_replace after its search ended in state st.
FancyDecide(a, alo, ahi, b, blo, bhi, st) ==
    IF BelowCutoff(st)
    THEN IF st.eqi = -1
         THEN _plain_replace(a, alo, ahi, b, blo, bhi)
         ELSE FancySplit(a, alo, ahi, b, blo, bhi, st.eqi, st.eqj, TRUE)
    ELSE FancySplit(a, alo, ahi, b, blo, bhi, st.i, st.j, FALSE)

_fancy_replace(a, alo, ahi, b, blo, bhi) ==
    FancyDecide(a, alo, ahi, b, blo, bhi,
                FancyScan(a, alo, ahi, b, blo, bhi, FancyStart))

_fancy_helper(a, alo, ahi, b, blo, bhi) ==
    IF alo < ahi
    THEN IF blo < bhi THEN _fancy_replace(a, alo, ahi, b, blo, bhi)
         ELSE _dump("-", a, alo, ahi)
    ELSE IF blo < bhi THEN _dump("+", b, blo, bhi)
    ELSE << >>

\* The loop of Differ.compare over the line opcodes.
RECURSIVE CompareFrom(_, _, _, _)
CompareFrom(a, b, ops, n) ==
    IF n > Len(ops) THEN << >>
    ELSE LET op  == ops[n]
             tag == op[1]
             g   == IF tag = "replace"
                    THEN _fancy_replace(a, op[2], op[3], b, op[4], op[5])
                    ELSE IF tag = "delete" THEN _dump("-", a, op[2], op[3])
                    ELSE IF tag = "insert" THEN _dump("+", b, op[4], op[5])
                    ELSE _dump(" ", a, op[2], op[3])
         IN  g \o CompareFrom(a, b, ops, n + 1)

\* list(difflib.ndiff(a, b))
ndiff(a, b) == CompareFrom(a, b, get_opcodes(SequenceMatcher({}, a, b)), 1)

----------------------------------------------------------------------------
(* The program state.                                                      *)

VARIABLES
    fs_old,            \* lines of the file at the old path
    fs_new,            \* lines of the file at the new path
    pc,                \* position of main()
    read_old,          \* read_file(old_file), first argument of ndiff
    read_new,          \* read_file(new_file), second argument of ndiff
    diff,              \* compare_files: list(difflib.ndiff(...))
    idx,               \* compare_files: lines of diff already processed
    old_lines,         \* compare_files: local old_lines
    new_lines,         \* compare_files: local new_lines
    old_line_number,   \* compare_files: local counter
    new_line_number,   \* compare_files: local counter
    main_new_lines,    \* main: new_lines, first component of the result
    main_old_lines,    \* main: old_lines, second component of the result
    ws,                \* create_excel: rows of the worksheet written so far
    column_dimensions, \* create_excel: width set for each of the 4 columns
    artifact,          \* the workbook file at output_file (NoFile: none)
    printed,           \* messages printed by this invocation of main
    trace,             \* steps of this invocation of main, in order
    prev               \* result of the previous invocation (NoRun: none)

vars == << fs_old, fs_new, pc, read_old, read_new, diff, idx, old_lines,
           new_lines, old_line_number, new_line_number, main_new_lines,
           main_old_lines, ws, column_dimensions, artifact, printed, trace,
           prev >>

compareVars == << diff, idx, old_lines, new_lines, old_line_number,
                  new_line_number >>
excelVars   == << ws, column_dimensions >>
envVars     == << fs_old, fs_new, prev >>

NoFile == [saved |-> FALSE, title |-> "", rows |-> << >>, widths |-> << >>]
NoRun  == [ran |-> FALSE, new_lines |-> << >>, old_lines |-> << >>,
           artifact |-> NoFile]

green_fill == "FF00FF00"
red_fill   == "FFFF0000"
no_fill    == "none"

SheetTitle == "File Comparison"
SuccessMessage == "created successfully"

Init ==
    /\ fs_old \in Files
    /\ fs_new \in Files
    /\ pc = "start"
    /\ read_old = << >>
    /\ read_new = << >>
    /\ diff = << >>
    /\ idx = 0
    /\ old_lines = << >>
    /\ new_lines = << >>
    /\ old_line_number = 1
    /\ new_line_number = 1
    /\ main_new_lines = << >>
    /\ main_old_lines = << >>
    /\ ws = << >>
    /\ column_dimensions = << >>
    /\ artifact = NoFile
    /\ printed = << >>
    /\ trace = << >>
    /\ prev = NoRun

----------------------------------------------------------------------------
(* compare_files                                                           *)

\* line.startswith(c)
StartsWith(line, c) == Len(line) >= 1 /\ line[1] = c

\* Variant of FormattedLine that forgets rstrip(): f"{number} {line[2:]}".
FormattedLineKeepsWs(number, line) ==
    Str(number) \o << " " >> \o SliceFrom(line, 2)

\* f"{number} {line[2:].rstrip()}"
FormattedLine(number, line) ==
    Str(number) \o << " " >> \o rstrip(SliceFrom(line, 2))

\* The counters compare_files starts from (line 22).
InitialLineNumber == 1

\* main, lines 95-97: the three prompts.
Prompt ==
    /\ pc = "start"
    /\ pc' = "read_old"
    /\ trace' = Append(trace, "prompt")
    /\ UNCHANGED << read_old, read_new, compareVars, main_new_lines,
                    main_old_lines, excelVars, artifact, printed, envVars >>

\* Line 20, first argument: read_file(old_file) returns the lines, or raises
\* (missing or undecodable file) and the exception ends main.
ReadOld ==
    /\ pc = "read_old"
    /\ \E ok \in BOOLEAN :
         IF ok
         THEN /\ read_old' = fs_old
              /\ pc' = "read_new"
              /\ trace' = Append(trace, "read_old")
         ELSE /\ read_old' = read_old
              /\ pc' = "failed"
              /\ trace' = Append(trace, "read_error")
    /\ UNCHANGED << read_new, compareVars, main_new_lines, main_old_lines,
                    excelVars, artifact, printed, envVars >>

\* Line 20, second argument: read_file(new_file).
ReadNew ==
    /\ pc = "read_new"
    /\ \E ok \in BOOLEAN :
         IF ok
         THEN /\ read_new' = fs_new
              /\ pc' = "align"
              /\ trace' = Append(trace, "read_new")
         ELSE /\ read_new' = read_new
              /\ pc' = "failed"
              /\ trace' = Append(trace, "read_error")
    /\ UNCHANGED << read_old, compareVars, main_new_lines, main_old_lines,
                    excelVars, artifact, printed, envVars >>

\* Variant of StartCompare whose counters are module-level and are not set
\* back to 1 by the call.
StartCompareStaleCounters ==
    /\ pc = "align"
    /\ diff' = ndiff(read_old, read_new)
    /\ idx' = 0
    /\ old_lines' = << >>
    /\ new_lines' = << >>
    /\ pc' = "compare_loop"
    /\ trace' = Append(trace, "align")
    /\ UNCHANGED << old_line_number, new_line_number, read_old, read_new,
                    main_new_lines, main_old_lines, excelVars, artifact,
                    printed, envVars >>

\* Lines 20-22: the edit script and the fresh locals of this call.
StartCompare ==
    /\ pc = "align"
    /\ diff' = ndiff(read_old, read_new)
    /\ idx' = 0
    /\ old_lines' = << >>
    /\ new_lines' = << >>
    /\ old_line_number' = InitialLineNumber
    /\ new_line_number' = InitialLineNumber
    /\ pc' = "compare_loop"
    /\ trace' = Append(trace, "align")
    /\ UNCHANGED << read_old, read_new, main_new_lines, main_old_lines,
                    excelVars, artifact, printed, envVars >>

InLoop == pc = "compare_loop" /\ idx < Len(diff)
Line   == diff[idx + 1]

loopFrame == << read_old, read_new, diff, main_new_lines, main_old_lines,
                excelVars, artifact, printed, trace, envVars, pc >>

\* Variant of StepUnchanged that forgets old_line_number += 1.
StepUnchangedOneCounter ==
    /\ InLoop
    /\ StartsWith(Line, " ")
    /\ new_lines' = Append(new_lines, FormattedLine(new_line_number, Line))
    /\ old_lines' = Append(old_lines, FormattedLine(old_line_number, Line))
    /\ new_line_number' = new_line_number + 1
    /\ idx' = idx + 1
    /\ UNCHANGED << old_line_number, loopFrame >>

\* Lines 25-31: an unchanged line.
StepUnchanged ==
    /\ InLoop
    /\ StartsWith(Line, " ")
    /\ new_lines' = Append(new_lines, FormattedLine(new_line_number, Line))
    /\ old_lines' = Append(old_lines, FormattedLine(old_line_number, Line))
    /\ new_line_number' = new_line_number + 1
    /\ old_line_number' = old_line_number + 1
    /\ idx' = idx + 1
    /\ UNCHANGED loopFrame

\* Variant of StepDeleted that forgets the gap on the new side.
StepDeletedNoGap ==
    /\ InLoop
    /\ ~StartsWith(Line, " ")
    /\ StartsWith(Line, "-")
    /\ old_lines' = Append(old_lines, FormattedLine(old_line_number, Line))
    /\ old_line_number' = old_line_number + 1
    /\ idx' = idx + 1
    /\ UNCHANGED << new_lines, new_line_number, loopFrame >>

\* Lines 32-35: a line of the old file only.
StepDeleted ==
    /\ InLoop
    /\ ~StartsWith(Line, " ")
    /\ StartsWith(Line, "-")
    /\ old_lines' = Append(old_lines, FormattedLine(old_line_number, Line))
    /\ new_lines' = Append(new_lines, << >>)
    /\ old_line_number' = old_line_number + 1
    /\ idx' = idx + 1
    /\ UNCHANGED << new_line_number, loopFrame >>

\* Variant of StepInserted that increments both counters.
StepInsertedBumpsBoth ==
    /\ InLoop
    /\ ~StartsWith(Line, " ")
    /\ ~StartsWith(Line, "-")
    /\ StartsWith(Line, "+")
    /\ new_lines' = Append(new_lines, FormattedLine(new_line_number, Line))
    /\ old_lines' = Append(old_lines, << >>)
    /\ new_line_number' = new_line_number + 1
    /\ old_line_number' = old_line_number + 1
    /\ idx' = idx + 1
    /\ UNCHANGED loopFrame

\* Lines 36-40: a line of the new file only.
StepInserted ==
    /\ InLoop
    /\ ~StartsWith(Line, " ")
    /\ ~StartsWith(Line, "-")
    /\ StartsWith(Line, "+")
    /\ new_lines' = Append(new_lines, FormattedLine(new_line_number, Line))
    /\ old_lines' = Append(old_lines, << >>)
    /\ new_line_number' = new_line_number + 1
    /\ idx' = idx + 1
    /\ UNCHANGED << old_line_number, loopFrame >>

\* Variant of StepOther that gives a hint line a row of its own, both sides
\* a gap.
StepOtherEmitsRow ==
    /\ InLoop
    /\ ~StartsWith(Line, " ")
    /\ ~StartsWith(Line, "-")
    /\ ~StartsWith(Line, "+")
    /\ new_lines' = Append(new_lines, << >>)
    /\ old_lines' = Append(old_lines, << >>)
    /\ idx' = idx + 1
    /\ UNCHANGED << old_line_number, new_line_number, loopFrame >>

\* No branch of lines 25-40 matches (ndiff's '?' hint lines): next line.
StepOther ==
    /\ InLoop
    /\ ~StartsWith(Line, " ")
    /\ ~StartsWith(Line, "-")
    /\ ~StartsWith(Line, "+")
    /\ idx' = idx + 1
    /\ UNCHANGED << old_lines, new_lines, old_line_number, new_line_number,
                    loopFrame >>

\* Variant of ReturnValue with the two sequences in the other order.
ReturnValueSwapped(newl, oldl) == << oldl, newl >>

\* The pair compare_files returns (line 42).
ReturnValue(newl, oldl) == << newl, oldl >>

\* Line 42 and the assignment of line 98.
ReturnCompare ==
    /\ pc = "compare_loop"
    /\ idx = Len(diff)
    /\ main_new_lines' = ReturnValue(new_lines, old_lines)[1]
    /\ main_old_lines' = ReturnValue(new_lines, old_lines)[2]
    /\ pc' = "create_excel"
    /\ UNCHANGED << read_old, read_new, compareVars, excelVars, artifact,
                    printed, trace, envVars >>

----------------------------------------------------------------------------
(* create_excel                                                            *)

\* Number of iterations of zip(new_lines, old_lines).
ZipLen(newl, oldl) == IF Len(newl) < Len(oldl) THEN Len(newl) ELSE Len(oldl)

\* Lines 64-65: line.split(' ', 1) if line else ('', '').
SplitEntry(line) == IF line # << >> THEN Split1(line) ELSE << << >>, << >> >>

\* Line 72: the condition under which column 2 gets green_fill.
AddedFill(line_new_content, line_old_content) ==
    line_new_content # << >> /\ ~(line_old_content # << >>)

\* Variant of RemovedFill that tests the old content only
\* (elif line_old_content:).
RemovedFillLoose(line_new_content, line_old_content) ==
    /\ ~AddedFill(line_new_content, line_old_content)
    /\ line_old_content # << >>

\* Lines 72 and 74: the condition under which column 4 gets red_fill.
RemovedFill(line_new_content, line_old_content) ==
    /\ ~AddedFill(line_new_content, line_old_content)
    /\ line_old_content # << >> /\ ~(line_new_content # << >>)

\* Lines 64-75: the four cells of one row with their alignment and fill.
\* Unpacking the split into two names needs exactly two parts.
RowCells(line_new, line_old) ==
    LET n == SplitEntry(line_new)
        o == SplitEntry(line_old)
    IN  [ new_number  |-> n[1],
          new_content |-> n[2],
          old_number  |-> o[1],
          old_content |-> o[2],
          align1      |-> "center",
          align3      |-> "center",
          fill2       |-> IF AddedFill(n[2], o[2]) THEN green_fill ELSE no_fill,
          fill4       |-> IF RemovedFill(n[2], o[2]) THEN red_fill ELSE no_fill ]

\* Lines 55-61: a new workbook with an empty sheet.
CreateWorkbook ==
    /\ pc = "create_excel"
    /\ ws' = << >>
    /\ column_dimensions' = << >>
    /\ pc' = "render_loop"
    /\ trace' = Append(trace, "render")
    /\ UNCHANGED << read_old, read_new, compareVars, main_new_lines,
                    main_old_lines, artifact, printed, envVars >>

\* Lines 63-75: one iteration of the loop over the zipped sequences.
RenderRow ==
    /\ pc = "render_loop"
    /\ Len(ws) < ZipLen(main_new_lines, main_old_lines)
    /\ LET row == Len(ws) + 1
       IN  ws' = Append(ws, RowCells(main_new_lines[row], main_old_lines[row]))
    /\ UNCHANGED << read_old, read_new, compareVars, main_new_lines,
                    main_old_lines, column_dimensions, artifact, printed,
                    trace, envVars, pc >>

\* Lines 76-83: the longest value of a column (0 for an empty sheet, whose
\* only cell has no measurable value).
RECURSIVE ColumnWidth(_, _, _)
ColumnWidth(rows, col, n) ==
    IF n > Len(rows) THEN 0
    ELSE LET r == rows[n]
             v == CASE col = 1 -> r.new_number
                    [] col = 2 -> r.new_content
                    [] col = 3 -> r.old_number
                    [] col = 4 -> r.old_content
         IN  Max(Len(v), ColumnWidth(rows, col, n + 1))

\* Line 86: width * 1.2, as the fraction <<numerator, denominator>>.
ScaledWidth(width) == << width * 12, 10 >>

\* Lines 76-86: column widths, once the loop over the rows has ended.
SizeColumns ==
    /\ pc = "render_loop"
    /\ Len(ws) = ZipLen(main_new_lines, main_old_lines)
    /\ column_dimensions' =
           [col \in 1..4 |-> ScaledWidth(ColumnWidth(ws, col, 1))]
    /\ pc' = "save"
    /\ UNCHANGED << read_old, read_new, compareVars, main_new_lines,
                    main_old_lines, ws, artifact, printed, trace, envVars >>

\* Variant of Save that swallows the write error and carries on.
SaveSwallowsError ==
    /\ pc = "save"
    /\ \E ok \in BOOLEAN :
         IF ok
         THEN /\ artifact' = [ saved  |-> TRUE,
                               title  |-> SheetTitle,
                               rows   |-> ws,
                               widths |-> column_dimensions ]
              /\ trace' = Append(trace, "write")
         ELSE /\ artifact' = artifact
              /\ trace' = Append(trace, "write_error")
    /\ pc' = "print"
    /\ UNCHANGED << read_old, read_new, compareVars, main_new_lines,
                    main_old_lines, excelVars, printed, envVars >>

\* Line 87: wb.save(output_file) writes the workbook, or raises and ends main.
Save ==
    /\ pc = "save"
    /\ \E ok \in BOOLEAN :
         IF ok
         THEN /\ artifact' = [ saved  |-> TRUE,
                               title  |-> SheetTitle,
                               rows   |-> ws,
                               widths |-> column_dimensions ]
              /\ pc' = "print"
              /\ trace' = Append(trace, "write")
         ELSE /\ artifact' = artifact
              /\ pc' = "failed"
              /\ trace' = Append(trace, "write_error")
    /\ UNCHANGED << read_old, read_new, compareVars, main_new_lines,
                    main_old_lines, excelVars, printed, envVars >>

\* Line 100: the success message.
PrintSuccess ==
    /\ pc = "print"
    /\ printed' = Append(printed, SuccessMessage)
    /\ pc' = "done"
    /\ trace' = Append(trace, "print")
    /\ UNCHANGED << read_old, read_new, compareVars, main_new_lines,
                    main_old_lines, excelVars, artifact, envVars >>

\* main is run again on the same two files (lines 103-104).  The output of
\* the finished run is remembered in prev; the variables of the finished
\* calls keep their last values until the code assigns them again.
RunAgain ==
    /\ pc = "done"
    /\ prev' = [ ran       |-> TRUE,
                 new_lines |-> main_new_lines,
                 old_lines |-> main_old_lines,
                 artifact  |-> artifact ]
    /\ pc' = "start"
    /\ printed' = << >>
    /\ trace' = << >>
    /\ UNCHANGED << fs_old, fs_new, read_old, read_new, compareVars,
                    main_new_lines, main_old_lines, excelVars, artifact >>

Next ==
    \/ Prompt
    \/ ReadOld
    \/ ReadNew
    \/ StartCompare
    \/ StepUnchanged
    \/ StepDeleted
    \/ StepInserted
    \/ StepOther
    \/ ReturnCompare
    \/ CreateWorkbook
    \/ RenderRow
    \/ SizeColumns
    \/ Save
    \/ PrintSuccess
    \/ RunAgain

Spec == Init /\ [][Next]_vars

----------------------------------------------------------------------------
(* Vocabulary of the properties.                                           *)

\* compare_files has returned in this invocation and main holds its result.
Returned == pc \in {"create_excel", "render_loop", "save", "print", "done"}

\* The loop of create_excel has placed every row.
Rendered == pc \in {"save", "print", "done"}

IsEntry(e) == e # << >>
IsGap(e)   == e = << >>

\* The entries of one side with the gaps removed.
NonGap(side) == SelectSeq(side, IsEntry)

DigitValue(c) == CHOOSE d \in 0..9 : DigitChar(d) = c
IsDigit(c) == \E d \in 0..9 : DigitChar(d) = c

\* The number a string of decimal digits denotes.
RECURSIVE ParseNat(_)
ParseNat(digits) ==
    IF digits = << >> THEN 0
    ELSE 10 * ParseNat(SubSeq(digits, 1, Len(digits) - 1))
         + DigitValue(digits[Len(digits)])

IsNumeral(digits) ==
    digits # << >> /\ \A k \in 1..Len(digits) : IsDigit(digits[k])

\* An entry carries (number, text): a numeral for number, one blank, text.
Carries(e, number, text) ==
    \E k \in 1..Len(e) :
        /\ e[k] = " "
        /\ IsNumeral(SubSeq(e, 1, k - 1))
        /\ ParseNat(SubSeq(e, 1, k - 1)) = number
        /\ SubSeq(e, k + 1, Len(e)) = text

\* An entry without its line-number prefix.
WithoutNumber(e) ==
    LET k == CHOOSE n \in 1..Len(e) : e[n] = " " /\ \A m \in 1..(n - 1) : e[m] # " "
    IN  SubSeq(e, k + 1, Len(e))

Texts(side) == [k \in 1..Len(NonGap(side)) |-> WithoutNumber(NonGap(side)[k])]
Stripped(lines) == [k \in 1..Len(lines) |-> rstrip(lines[k])]

\* The edit-script lines that are operations, and their kinds.
IsOperation(line) == line[1] \in {" ", "-", "+"}
Operations(script) == SelectSeq(script, IsOperation)
IsUnchanged(line) == line[1] = " "
IsDeleted(line)   == line[1] = "-"
IsInserted(line)  == line[1] = "+"
IsHint(line)      == line[1] = "?"
NumUnchanged(script) == Len(SelectSeq(script, IsUnchanged))
NumDeleted(script)   == Len(SelectSeq(script, IsDeleted))
NumInserted(script)  == Len(SelectSeq(script, IsInserted))
NumHints(script)     == Len(SelectSeq(script, IsHint))
ScriptText(line) == rstrip(SubSeq(line, 3, Len(line)))

HasTrailingSpace(lines) == \E k \in 1..Len(lines) : rstrip(lines[k]) # lines[k]

----------------------------------------------------------------------------
(* C1.  Reconstruction: the new-side sequence returned by compare_files,   *)
(* with the gaps removed and the line-number prefix dropped, is the new    *)
(* file line for line with trailing whitespace stripped; likewise the      *)
(* old-side sequence and the old file.                                     *)
C1_Reconstruction ==
    Returned =>
        /\ Texts(main_new_lines) = Stripped(read_new)
        /\ Texts(main_old_lines) = Stripped(read_old)

C1_Witness ==
    /\ Returned
    /\ HasTrailingSpace(read_new)
    /\ HasTrailingSpace(read_old)
    /\ \E r \in 1..Len(main_new_lines) : IsGap(main_new_lines[r])
    /\ \E r \in 1..Len(main_old_lines) : IsGap(main_old_lines[r])
    /\ \E r \in 1..Len(main_new_lines) :
           IsEntry(main_new_lines[r]) /\ IsEntry(main_old_lines[r])

(* C2.  Row count: the two returned sequences have the same length, which  *)
(* is the number of unchanged, deleted and inserted lines of the edit      *)
(* script ('?' hint lines add no row), and row r stems from the r-th       *)
(* operation alone: both sides filled for an unchanged line, only the old  *)
(* side for a deleted one, only the new side for an inserted one.          *)
C2_RowCount ==
    Returned =>
        /\ Len(main_new_lines) = Len(main_old_lines)
        /\ Len(main_new_lines) = NumUnchanged(diff)
                                 + NumDeleted(diff)
                                 + NumInserted(diff)
        /\ \A r \in 1..Len(Operations(diff)) :
               LET op == Operations(diff)[r]
               IN  /\ IsEntry(main_new_lines[r]) = ~IsDeleted(op)
                   /\ IsEntry(main_old_lines[r]) = ~IsInserted(op)

C2_Witness ==
    /\ Returned
    /\ NumHints(diff) > 0
    /\ NumUnchanged(diff) > 0
    /\ NumDeleted(diff) > 0
    /\ NumInserted(diff) > 0
    /\ Len(main_new_lines) < Len(diff)

(* C3.  Highlight exactness: on every row written by create_excel the      *)
(* new-content cell has the 'added' fill exactly when new-content is       *)
(* non-empty and old-content is empty, the old-content cell has the        *)
(* 'removed' fill exactly when old-content is non-empty and new-content is *)
(* empty, and no row has both fills.                                       *)
C3_HighlightExact ==
    \A r \in 1..Len(ws) :
        /\ (ws[r].fill2 = green_fill) <=>
               (ws[r].new_content # << >> /\ ws[r].old_content = << >>)
        /\ (ws[r].fill4 = red_fill) <=>
               (ws[r].old_content # << >> /\ ws[r].new_content = << >>)
        /\ ~(ws[r].fill2 = green_fill /\ ws[r].fill4 = red_fill)
        /\ ws[r].fill2 \in {green_fill, no_fill}
        /\ ws[r].fill4 \in {red_fill, no_fill}

C3_Witness ==
    /\ Rendered
    /\ \E r \in 1..Len(ws) : ws[r].fill2 = green_fill
    /\ \E r \in 1..Len(ws) : ws[r].fill4 = red_fill
    /\ \E r \in 1..Len(ws) :
           /\ ws[r].new_content # << >>
           /\ ws[r].old_content # << >>
           /\ ws[r].fill2 = no_fill
           /\ ws[r].fill4 = no_fill

(* C4.  Pure insertion: with an empty old file and a new file of n lines   *)
(* the report has n rows, every row has its new-content cell marked        *)
(* 'added', the new numbers are 1..n in order and the old side is empty.   *)
C4_PureInsertion ==
    (Rendered /\ read_old = << >>) =>
        /\ Len(ws) = Len(read_new)
        /\ \A r \in 1..Len(ws) :
               /\ ws[r].fill2 = green_fill
               /\ IsNumeral(ws[r].new_number)
               /\ ParseNat(ws[r].new_number) = r
               /\ ws[r].old_number = << >>
               /\ ws[r].old_content = << >>

(* C5, as stated.  No row has both its new-content and its old-content     *)
(* empty.                                                                  *)
C5_NoEmptyRow ==
    \A r \in 1..Len(ws) :
        ws[r].new_content # << >> \/ ws[r].old_content # << >>

(* C5, amended.  No row has a gap on both sides: on every row at least one *)
(* of the two number cells is non-empty, and both content strings are      *)
(* empty only on a row whose line is blank once trailing whitespace is     *)
(* stripped.                                                               *)
C5_NoDoubleGap ==
    \A r \in 1..Len(ws) :
        /\ ws[r].new_number # << >> \/ ws[r].old_number # << >>
        /\ (ws[r].new_content = << >> /\ ws[r].old_content = << >>) =>
               /\ ws[r].new_number # << >> =>
                      rstrip(read_new[ParseNat(ws[r].new_number)]) = << >>
               /\ ws[r].old_number # << >> =>
                      rstrip(read_old[ParseNat(ws[r].old_number)]) = << >>

C5_Witness ==
    /\ Rendered
    /\ \E r \in 1..Len(ws) :
           ws[r].new_content = << >> /\ ws[r].old_content = << >>
    /\ \E r \in 1..Len(ws) :
           ws[r].new_number = << >> /\ ws[r].old_content # << >>
    /\ NumHints(diff) > 0

\* One old line replaced by a different new line between unchanged lines.
OneLineReplaced ==
    /\ Len(read_old) = 3
    /\ Len(read_new) = 3
    /\ read_old[1] = read_new[1]
    /\ read_old[3] = read_new[3]
    /\ read_old[2] # read_new[2]

\* The four rows of the mixed case: unchanged 1/1, the deleted old line 2
\* with a new-side gap, the inserted new line 2 with an old-side gap,
\* unchanged 3/3.
DeleteThenInsertRows ==
    /\ Len(main_new_lines) = 4
    /\ Len(main_old_lines) = 4
    /\ Carries(main_new_lines[1], 1, rstrip(read_new[1]))
    /\ Carries(main_old_lines[1], 1, rstrip(read_old[1]))
    /\ IsGap(main_new_lines[2])
    /\ Carries(main_old_lines[2], 2, rstrip(read_old[2]))
    /\ Carries(main_new_lines[3], 2, rstrip(read_new[2]))
    /\ IsGap(main_old_lines[3])
    /\ Carries(main_new_lines[4], 3, rstrip(read_new[3]))
    /\ Carries(main_old_lines[4], 3, rstrip(read_old[3]))

(* C6, as stated.  When one old line is replaced by one different new line *)
(* between unchanged lines, the report is the deleted line's row, then the *)
(* inserted line's row, between unchanged rows numbered 1/1 and 3/3.       *)
C6_MixedOrder ==
    (Returned /\ OneLineReplaced) => DeleteThenInsertRows

(* C6, amended.  The same, provided neither the replaced old line nor the  *)
(* replacing new line equals the unchanged line that follows them.         *)
C6_MixedOrderDistinct ==
    (/\ Returned
     /\ OneLineReplaced
     /\ read_old[2] # read_old[3]
     /\ read_new[2] # read_new[3]) => DeleteThenInsertRows

C6_Witness ==
    /\ pc = "done"
    /\ OneLineReplaced
    /\ read_old[2] # read_old[3]
    /\ read_new[2] # read_new[3]
    /\ read_old[1] # << >>
    /\ DeleteThenInsertRows

(* C7.  Identical inputs of n lines give n rows, none with a gap; row i    *)
(* carries number i on both sides with the same text, and no cell is       *)
(* highlighted.                                                            *)
C7_Identical ==
    (Rendered /\ read_old = read_new) =>
        /\ Len(ws) = Len(read_new)
        /\ \A r \in 1..Len(ws) :
               /\ IsEntry(main_new_lines[r])
               /\ IsEntry(main_old_lines[r])
               /\ IsNumeral(ws[r].new_number)
               /\ ParseNat(ws[r].new_number) = r
               /\ ws[r].old_number = ws[r].new_number
               /\ ws[r].new_content = rstrip(read_new[r])
               /\ ws[r].old_content = ws[r].new_content
               /\ ws[r].fill2 = no_fill
               /\ ws[r].fill4 = no_fill

C7_Witness ==
    /\ pc = "done"
    /\ read_old = read_new
    /\ Len(read_new) >= 2
    /\ Len(ws) = Len(read_new)
    /\ \E r \in 1..Len(ws) : ws[r].new_content # << >>

(* C8.  Idempotence: a second run on the same two inputs ends with the     *)
(* same aligned sequences and the same saved report (rows, highlights,     *)
(* widths) as the run before it, and compare_files starts it with both     *)
(* counters at 1 and empty sequences whatever ran before.                  *)
C8_Idempotent ==
    /\ (prev.ran /\ pc = "done") =>
           /\ main_new_lines = prev.new_lines
           /\ main_old_lines = prev.old_lines
           /\ artifact = prev.artifact
    /\ (prev.ran /\ pc = "compare_loop" /\ idx = 0) =>
           /\ old_line_number = 1
           /\ new_line_number = 1
           /\ old_lines = << >>
           /\ new_lines = << >>

C8_Witness ==
    /\ prev.ran
    /\ pc = "done"
    /\ Len(prev.new_lines) >= 3
    /\ \E r \in 1..Len(prev.new_lines) : IsGap(prev.new_lines[r])
    /\ \E r \in 1..Len(prev.old_lines) : IsGap(prev.old_lines[r])
    /\ artifact.saved

\* The part of the edit script the loop of compare_files has processed.
Processed == SubSeq(diff, 1, idx)

TakesOld(line) == IsUnchanged(line) \/ IsDeleted(line)
TakesNew(line) == IsUnchanged(line) \/ IsInserted(line)

\* One more entry at the end of a side, carrying (number, text).
Emits(side, sideAfter, number, text) ==
    /\ Len(sideAfter) = Len(side) + 1
    /\ SubSeq(sideAfter, 1, Len(side)) = side
    /\ Carries(sideAfter[Len(sideAfter)], number, text)

\* One more gap at the end of a side.
EmitsGap(side, sideAfter) == sideAfter = Append(side, << >>)

\* compare_files starts its loop with both counters at 1 and no row.
ExpansionStart ==
    (pc # "compare_loop" /\ pc' = "compare_loop") =>
        /\ idx' = 0
        /\ old_line_number' = 1
        /\ new_line_number' = 1
        /\ old_lines' = << >>
        /\ new_lines' = << >>

\* What one pass of the loop does, by the kind of the line it processes.
ExpansionStep ==
    (pc = "compare_loop" /\ idx' # idx) =>
        LET line == diff[idx + 1]
            text == ScriptText(line)
        IN  /\ idx' = idx + 1
            /\ IsUnchanged(line) =>
                   /\ Emits(new_lines, new_lines', new_line_number, text)
                   /\ Emits(old_lines, old_lines', old_line_number, text)
                   /\ new_line_number' = new_line_number + 1
                   /\ old_line_number' = old_line_number + 1
            /\ IsDeleted(line) =>
                   /\ Emits(old_lines, old_lines', old_line_number, text)
                   /\ EmitsGap(new_lines, new_lines')
                   /\ old_line_number' = old_line_number + 1
                   /\ new_line_number' = new_line_number
            /\ IsInserted(line) =>
                   /\ Emits(new_lines, new_lines', new_line_number, text)
                   /\ EmitsGap(old_lines, old_lines')
                   /\ new_line_number' = new_line_number + 1
                   /\ old_line_number' = old_line_number
            /\ ~IsOperation(line) =>
                   UNCHANGED << old_lines, new_lines, old_line_number,
                                new_line_number >>

\* After any prefix of the script: the k-th non-gap entry of a side carries
\* number k, and each counter is one more than the lines taken from its side.
ExpansionNumbering ==
    pc = "compare_loop" =>
        /\ \A k \in 1..Len(NonGap(new_lines)) :
               Carries(NonGap(new_lines)[k], k,
                       ScriptText(SelectSeq(Processed, TakesNew)[k]))
        /\ \A k \in 1..Len(NonGap(old_lines)) :
               Carries(NonGap(old_lines)[k], k,
                       ScriptText(SelectSeq(Processed, TakesOld)[k]))
        /\ new_line_number = 1 + Len(NonGap(new_lines))
        /\ old_line_number = 1 + Len(NonGap(old_lines))
        /\ new_line_number = 1 + Len(SelectSeq(Processed, TakesNew))
        /\ old_line_number = 1 + Len(SelectSeq(Processed, TakesOld))

(* C9.  Expansion rule and numbering: both counters start at 1; an         *)
(* unchanged line emits (newLineNumber, text) and (oldLineNumber, text)    *)
(* and increments both counters; a deleted line emits (oldLineNumber,      *)
(* text) on the old side and a gap on the new side and increments only     *)
(* oldLineNumber; an inserted line emits (newLineNumber, text) on the new  *)
(* side and a gap on the old side and increments only newLineNumber; so    *)
(* after any prefix the k-th non-gap entry of a side carries number k and  *)
(* each counter is one plus the number of lines consumed from its side.    *)
C9_Expansion ==
    /\ []ExpansionNumbering
    /\ [][ExpansionStart /\ ExpansionStep]_vars

C9_Witness ==
    /\ pc = "compare_loop"
    /\ idx = Len(diff)
    /\ NumUnchanged(diff) > 0
    /\ NumDeleted(diff) > 0
    /\ NumInserted(diff) > 0
    /\ NumHints(diff) > 0
    /\ old_line_number # new_line_number

\* The steps of a run of main that succeeds, in order.
PipelineOrder ==
    << "prompt", "read_old", "read_new", "align", "render", "write", "print" >>

IsPrefix(t, full) == Len(t) <= Len(full) /\ t = SubSeq(full, 1, Len(t))

Happened(step) == \E k \in 1..Len(trace) : trace[k] = step

\* The run stopped at a failed read: after the prompts or after the first read.
ReadAborted ==
    \/ trace = << "prompt", "read_error" >>
    \/ trace = << "prompt", "read_old", "read_error" >>

\* The run stopped at a failed write, after all earlier steps.
WriteAborted ==
    trace = << "prompt", "read_old", "read_new", "align", "render",
               "write_error" >>

(* C10.  Pipeline ordering and failure: the steps of a run happen in the   *)
(* order read inputs, align, render rows, write, report success; the       *)
(* artifact is written at most once, after all rows are placed, and once   *)
(* in a run that ends; the success message is reported at most once and    *)
(* only after the write; a failed read ends the run with no artifact       *)
(* written and no message, and a failed write with no message.             *)
C10_Pipeline ==
    /\ IsPrefix(trace, PipelineOrder) \/ ReadAborted \/ WriteAborted
    /\ Happened("write") =>
           /\ Len(ws) = ZipLen(main_new_lines, main_old_lines)
           /\ artifact.saved
           /\ artifact.rows = ws
    /\ ~Happened("write") => artifact = prev.artifact
    /\ Len(printed) <= 1
    /\ printed # << >> => Happened("write")
    /\ (pc = "done") = (trace = PipelineOrder)
    /\ (pc = "done") = (printed # << >>)
    /\ (pc = "failed") = (ReadAborted \/ WriteAborted)
    /\ ReadAborted => (printed = << >> /\ ~Happened("write"))
    /\ WriteAborted => (printed = << >> /\ ~Happened("write"))

C10_Witness ==
    /\ pc = "done"
    /\ trace = PipelineOrder
    /\ Len(printed) = 1
    /\ artifact.saved
    /\ Len(artifact.rows) >= 2

====
